---- MODULE Spec2Model ----
(***************************************************************************)
(* A model of music21/musicxml/xmlObjects.py: the forward and reverse      *)
(* dispatch tables for articulation and technical marks, as built by the   *)
(* module-level statements, the MusicXMLException rendering, and the       *)
(* scalar converters.                                                      *)
(*                                                                         *)
(* Python values are modelled as follows.  A mark type is the string of    *)
(* its class name.  A token is a string.  An OrderedDict is the sequence   *)
(* of its <<key, value>> items in iteration order, with distinct keys.     *)
(***************************************************************************)
EXTENDS Integers, Sequences, FiniteSets, TLC

VARIABLES
    pc,                      \* the module-level statement to run next
    ARTICULATION_MARKS_REV,  \* xmlObjects.py:51-56
    TECHNICAL_MARKS_REV,     \* xmlObjects.py:86-89
    exc,                     \* the MusicXMLException instance in flight
    ret,                     \* what the latest call was given and returned
    value,                   \* the argument handed to the scalar converters
    FORWARD,                 \* table building over any forward table: the input
    TABLE,                   \*   ... the reverse table under construction
    bpc,                     \*   ... its position
    last                     \*   ... the latest override statement run on it

vars == <<pc, ARTICULATION_MARKS_REV, TECHNICAL_MARKS_REV, exc, ret, value,
          FORWARD, TABLE, bpc, last>>

\* Python's None, where a token (a string) is expected.
None == "None"

(***************************************************************************)
(* collections.OrderedDict, as the module uses it.                         *)
(***************************************************************************)
Keys(d) == {d[i][1] : i \in DOMAIN d}

HasKey(d, k) == k \in Keys(d)

IndexOf(d, k) == CHOOSE i \in DOMAIN d : d[i][1] = k

GetItem(d, k) == d[IndexOf(d, k)][2]

\* d[k] = v keeps the position of a key already present and replaces its
\* value; a new key goes to the end.
SetItemAtFront(d, k, v) ==
    <<<<k, v>>>> \o SelectSeq(d, LAMBDA e : e[1] # k)

SetItem(d, k, v) ==
    IF HasKey(d, k)
    THEN [d EXCEPT ![IndexOf(d, k)] = <<k, v>>]
    ELSE Append(d, <<k, v>>)

\* del d[k]: what d holds afterwards and whether KeyError was raised, which
\* an absent key does.
DelItemKeeps(d, k) == [raised |-> FALSE, d |-> d]

DelItemIgnoresMissing(d, k) ==
    [raised |-> FALSE, d |-> SelectSeq(d, LAMBDA e : e[1] # k)]

DelItem(d, k) ==
    IF HasKey(d, k)
    THEN [raised |-> FALSE, d |-> SelectSeq(d, LAMBDA e : e[1] # k)]
    ELSE [raised |-> TRUE, d |-> d]

\* OrderedDict(pairs): the pairs are inserted one after another.
RECURSIVE FromPairs(_)
FromPairs(pairs) ==
    IF pairs = <<>>
    THEN <<>>
    ELSE LET n == Len(pairs)
         IN  SetItem(FromPairs(SubSeq(pairs, 1, n - 1)), pairs[n][1], pairs[n][2])

\* OrderedDict([(v, k) for k, v in forward.items()])
InvertKeepsFirst(forward) ==
    LET firstAt(i) == \A j \in 1..(i - 1) : forward[j][2] # forward[i][2]
        idx == SelectSeq([i \in DOMAIN forward |-> i], firstAt)
    IN  [n \in DOMAIN idx |-> <<forward[idx[n]][2], forward[idx[n]][1]>>]

Invert(forward) ==
    FromPairs([i \in DOMAIN forward |-> <<forward[i][2], forward[i][1]>>])

(***************************************************************************)
(* The forward tables.                                                     *)
(***************************************************************************)
ARTICULATION_MARKS ==
    << <<"accent", "Accent">>,
       <<"strong-accent", "StrongAccent">>,
       <<"staccato", "Staccato">>,
       <<"staccatissimo", "Staccatissimo">>,
       <<"spiccato", "Spiccato">>,
       <<"tenuto", "Tenuto">>,
       <<"detached-legato", "DetachedLegato">>,
       <<"scoop", "Scoop">>,
       <<"plop", "Plop">>,
       <<"doit", "Doit">>,
       <<"falloff", "Falloff">>,
       <<"breath-mark", "BreathMark">>,
       <<"caesura", "Caesura">>,
       <<"stress", "Stress">>,
       <<"unstress", "Unstress">>,
       <<"other-articulation", "Articulation">> >>

TECHNICAL_MARKS ==
    << <<"up-bow", "UpBow">>,
       <<"down-bow", "DownBow">>,
       <<"harmonic", "StringHarmonic">>,
       <<"open-string", "OpenString">>,
       <<"thumb-position", "StringThumbPosition">>,
       <<"fingering", "Fingering">>,
       <<"pluck", "FrettedPluck">>,
       <<"double-tongue", "DoubleTongue">>,
       <<"triple-tongue", "TripleTongue">>,
       <<"stopped", "Stopped">>,
       <<"snap-pizzicato", "SnapPizzicato">>,
       <<"string", "StringIndication">>,
       <<"tap", "FretTap">>,
       <<"fret", "FretIndication">>,
       <<"heel", "OrganHeel">>,
       <<"toe", "OrganToe">>,
       <<"fingernails", "HarpFingerNails">>,
       <<"handbell", "HandbellIndication">>,
       <<"other-technical", "TechnicalIndication">> >>

(***************************************************************************)
(* The mark type hierarchy of music21.articulations: the direct bases of   *)
(* each class (multiple inheritance included), and isinstance.             *)
(***************************************************************************)
Bases ==
    [ Articulation        |-> {},
      LengthArticulation  |-> {"Articulation"},
      DynamicArticulation |-> {"Articulation"},
      PitchArticulation   |-> {"Articulation"},
      TimbreArticulation  |-> {"Articulation"},
      Accent              |-> {"DynamicArticulation"},
      StrongAccent        |-> {"Accent"},
      Staccato            |-> {"LengthArticulation"},
      Staccatissimo       |-> {"Staccato"},
      Spiccato            |-> {"Staccato", "Accent"},
      Tenuto              |-> {"LengthArticulation"},
      DetachedLegato      |-> {"LengthArticulation"},
      IndeterminateSlide  |-> {"PitchArticulation"},
      Scoop               |-> {"IndeterminateSlide"},
      Plop                |-> {"IndeterminateSlide"},
      Doit                |-> {"IndeterminateSlide"},
      Falloff             |-> {"IndeterminateSlide"},
      BreathMark          |-> {"LengthArticulation"},
      Caesura             |-> {"Articulation"},
      Stress              |-> {"DynamicArticulation", "LengthArticulation"},
      Unstress            |-> {"DynamicArticulation"},
      TechnicalIndication |-> {"Articulation"},
      Harmonic            |-> {"TechnicalIndication"},
      Bowing              |-> {"TechnicalIndication"},
      Fingering           |-> {"TechnicalIndication"},
      UpBow               |-> {"Bowing"},
      DownBow             |-> {"Bowing"},
      StringHarmonic      |-> {"Bowing", "Harmonic"},
      OpenString          |-> {"Bowing"},
      StringIndication    |-> {"Bowing"},
      StringThumbPosition |-> {"Bowing"},
      StringFingering     |-> {"StringIndication", "Fingering"},
      Pizzicato           |-> {"Bowing"},
      SnapPizzicato       |-> {"Pizzicato"},
      NailPizzicato       |-> {"Pizzicato"},
      FretIndication      |-> {"TechnicalIndication"},
      FrettedPluck        |-> {"FretIndication", "Fingering"},
      FretBend            |-> {"FretIndication"},
      FretTap             |-> {"FretIndication"},
      WindIndication      |-> {"TechnicalIndication"},
      WoodwindIndication  |-> {"WindIndication"},
      BrassIndication     |-> {"WindIndication"},
      TonguingIndication  |-> {"WindIndication"},
      DoubleTongue        |-> {"TonguingIndication"},
      TripleTongue        |-> {"TonguingIndication"},
      Stopped             |-> {"WindIndication"},
      OrganIndication     |-> {"TechnicalIndication"},
      OrganHeel           |-> {"OrganIndication"},
      OrganToe            |-> {"OrganIndication"},
      HarpIndication      |-> {"TechnicalIndication"},
      HarpFingerNails     |-> {"HarpIndication"},
      HandbellIndication  |-> {"TechnicalIndication"} ]

MarkTypes == DOMAIN Bases

\* The classes t derives from, t itself included (the classes of its MRO
\* below Music21Object).
RECURSIVE Ancestors(_)
Ancestors(t) == {t} \cup UNION {Ancestors(b) : b \in Bases[t]}

\* isinstance(x, c) for an x whose class is t
IsInstance(t, c) == c \in Ancestors(t)

\* The export side's query: walk the reverse table in its stored order and
\* take the token of the first entry whose type the instance is-a; None when
\* no entry applies.
Resolve(table, t) ==
    LET hits == {i \in DOMAIN table : IsInstance(t, table[i][1])}
    IN  IF hits = {}
        THEN None
        ELSE table[CHOOSE i \in hits : \A j \in hits : i <= j][2]

(***************************************************************************)
(* MusicXMLException and its subclasses MusicXMLExportException and        *)
(* MusicXMLImportException, which inherit both methods unchanged.          *)
(***************************************************************************)
ExceptionClasses ==
    {"MusicXMLException", "MusicXMLExportException", "MusicXMLImportException"}

Messages == {"bad value", ""}
PartNames == {"", "Violin I", "Viola"}
MeasureNumbers == {"", "12", "0"}

NoException == [cls |-> None, message |-> "", measureNumber |-> "", partName |-> ""]

NoCall == [fn |-> None, arg |-> None, val |-> None]

NoOverride == [fn |-> None, arg |-> None, val |-> None, known |-> TRUE, n |-> 0]

\* __init__: the message goes to Exception.args, both context fields start
\* empty.
MusicXMLException_init(cls, message) ==
    [cls |-> cls, message |-> message, measureNumber |-> "", partName |-> ""]

\* __str__: super().__str__() is the message the exception was built with.
MusicXMLException_strNeedsBoth(self) ==
    IF self.measureNumber # "" /\ self.partName # ""
    THEN "In part (" \o self.partName \o "), measure ("
             \o self.measureNumber \o "): " \o self.message
    ELSE self.message

MusicXMLException_str(self) ==
    LET msg == self.message
    IN  IF self.measureNumber # "" \/ self.partName # ""
        THEN "In part (" \o self.partName \o "), measure ("
                 \o self.measureNumber \o "): " \o msg
        ELSE msg

(***************************************************************************)
(* The program: the module-level statements run once, in order, when the   *)
(* module is imported; a KeyError raised by one of them ends the import.   *)
(* Once the module is imported its tables are read and its exception       *)
(* classes are used.                                                       *)
(***************************************************************************)
Unused == /\ value = None
          /\ FORWARD = <<>>
          /\ TABLE = <<>>
          /\ bpc = "unused"
          /\ last = NoOverride

Init ==
    /\ pc = "L51"
    /\ ARTICULATION_MARKS_REV = <<>>
    /\ TECHNICAL_MARKS_REV = <<>>
    /\ exc = NoException
    /\ ret = NoCall
    /\ Unused

others == <<exc, ret, value, FORWARD, TABLE, bpc, last>>

\* ARTICULATION_MARKS_REV = OrderedDict([(v, k) for k, v in ARTICULATION_MARKS.items()])
Line51 ==
    /\ pc = "L51"
    /\ ARTICULATION_MARKS_REV' = Invert(ARTICULATION_MARKS)
    /\ pc' = "L52"
    /\ UNCHANGED <<TECHNICAL_MARKS_REV, others>>

\* del ARTICULATION_MARKS_REV[k]
DelArticulation(at, k, next) ==
    /\ pc = at
    /\ LET r == DelItem(ARTICULATION_MARKS_REV, k)
       IN  /\ ARTICULATION_MARKS_REV' = r.d
           /\ pc' = IF r.raised THEN "KeyError" ELSE next
    /\ UNCHANGED <<TECHNICAL_MARKS_REV, others>>

\* ARTICULATION_MARKS_REV[k] = v
SetArticulation(at, k, v, next) ==
    /\ pc = at
    /\ ARTICULATION_MARKS_REV' = SetItem(ARTICULATION_MARKS_REV, k, v)
    /\ pc' = next
    /\ UNCHANGED <<TECHNICAL_MARKS_REV, others>>

Line55WrongToken == SetArticulation("L55", "Staccato", "accent", "L56")

Line52 == DelArticulation("L52", "Articulation", "L53")
Line53 == DelArticulation("L53", "Staccato", "L54")
Line54 == DelArticulation("L54", "Accent", "L55")
Line55 == SetArticulation("L55", "Staccato", "staccato", "L56")
Line56 == SetArticulation("L56", "Accent", "accent", "L86")

\* TECHNICAL_MARKS_REV = OrderedDict([(v, k) for k, v in TECHNICAL_MARKS.items()])
Line86 ==
    /\ pc = "L86"
    /\ TECHNICAL_MARKS_REV' = Invert(TECHNICAL_MARKS)
    /\ pc' = "L88"
    /\ UNCHANGED <<ARTICULATION_MARKS_REV, others>>

\* del TECHNICAL_MARKS_REV[articulations.TechnicalIndication]
Line88 ==
    /\ pc = "L88"
    /\ LET r == DelItem(TECHNICAL_MARKS_REV, "TechnicalIndication")
       IN  /\ TECHNICAL_MARKS_REV' = r.d
           /\ pc' = IF r.raised THEN "KeyError" ELSE "L89"
    /\ UNCHANGED <<ARTICULATION_MARKS_REV, others>>

\* TECHNICAL_MARKS_REV[articulations.Harmonic] = 'harmonic'
Line89 ==
    /\ pc = "L89"
    /\ TECHNICAL_MARKS_REV' = SetItem(TECHNICAL_MARKS_REV, "Harmonic", "harmonic")
    /\ pc' = "done"
    /\ UNCHANGED <<ARTICULATION_MARKS_REV, others>>

tables == <<pc, ARTICULATION_MARKS_REV, TECHNICAL_MARKS_REV,
            value, FORWARD, TABLE, bpc, last>>

\* The export of an articulation object: its token by ARTICULATION_MARKS_REV.
ResolveArticulation ==
    /\ pc = "done"
    /\ exc = NoException
    /\ \E t \in MarkTypes :
          ret' = [fn |-> "resolveArticulation", arg |-> t,
                  val |-> Resolve(ARTICULATION_MARKS_REV, t)]
    /\ UNCHANGED <<tables, exc>>

\* The export of a technical indication: its token by TECHNICAL_MARKS_REV.
ResolveTechnical ==
    /\ pc = "done"
    /\ exc = NoException
    /\ \E t \in MarkTypes :
          ret' = [fn |-> "resolveTechnical", arg |-> t,
                  val |-> Resolve(TECHNICAL_MARKS_REV, t)]
    /\ UNCHANGED <<tables, exc>>

\* raise MusicXML...Exception(message)
Raise ==
    /\ pc = "done"
    /\ exc = NoException
    /\ \E cls \in ExceptionClasses, message \in Messages :
          exc' = MusicXMLException_init(cls, message)
    /\ ret' = NoCall
    /\ UNCHANGED tables

\* an outer layer fills in the context: e.partName = ...
SetPartName ==
    /\ exc # NoException
    /\ \E p \in PartNames : exc' = [exc EXCEPT !.partName = p]
    /\ ret' = NoCall
    /\ UNCHANGED tables

\* e.measureNumber = ...
SetMeasureNumber ==
    /\ exc # NoException
    /\ \E m \in MeasureNumbers : exc' = [exc EXCEPT !.measureNumber = m]
    /\ ret' = NoCall
    /\ UNCHANGED tables

\* str(e)
Str ==
    /\ exc # NoException
    /\ ret' = [fn |-> "__str__", arg |-> exc, val |-> MusicXMLException_str(exc)]
    /\ UNCHANGED <<tables, exc>>

\* the exception has been handled
Handled ==
    /\ exc # NoException
    /\ exc' = NoException
    /\ ret' = NoCall
    /\ UNCHANGED tables

Next ==
    \/ Line51 \/ Line52 \/ Line53 \/ Line54 \/ Line55 \/ Line56
    \/ Line86 \/ Line88 \/ Line89
    \/ ResolveArticulation \/ ResolveTechnical
    \/ Raise \/ SetPartName \/ SetMeasureNumber \/ Str \/ Handled

Spec == Init /\ [][Next]_vars

(***************************************************************************)
(* Properties of the imported module.                                      *)
(***************************************************************************)
Imported == pc = "done"

\* B derives from A and is not A
ProperDescendant(B, A) == B # A /\ A \in Ancestors(B)

DescendantsFirst(table) ==
    \A i, j \in DOMAIN table :
        ProperDescendant(table[j][1], table[i][1]) => j < i

\* C1: in each reverse table as it stands after the override statements,
\* whenever the types of two entries are in an ancestor/descendant
\* relationship, the descendant's entry is iterated before the ancestor's.
C1_DescendantsFirst ==
    Imported => /\ DescendantsFirst(ARTICULATION_MARKS_REV)
                /\ DescendantsFirst(TECHNICAL_MARKS_REV)

RoundTrips(forward, dropped, t, token) ==
    \A i \in DOMAIN forward :
        (forward[i][2] = t /\ t # dropped) => token = forward[i][1]

\* C2: for every (token, type) pair of a forward table whose type no
\* override drops or renames, resolving an instance of exactly that type by
\* the first-match walk of the reverse table returns that token.
C2_RoundTrip ==
    /\ ret.fn = "resolveArticulation"
          => RoundTrips(ARTICULATION_MARKS, "Articulation", ret.arg, ret.val)
    /\ ret.fn = "resolveTechnical"
          => RoundTrips(TECHNICAL_MARKS, "TechnicalIndication", ret.arg, ret.val)

\* C3: rendering an exception gives 'In part (<partName>), measure
\* (<measureNumber>): <message>' when at least one of the two context
\* fields is non-empty, the message unchanged when both are empty, and
\* leaves the exception as it was.
C3_Rendering ==
    ret.fn = "__str__" =>
        /\ exc = ret.arg
        /\ (exc.partName = "" /\ exc.measureNumber = "") => ret.val = exc.message
        /\ ~(exc.partName = "" /\ exc.measureNumber = "") =>
              ret.val = "In part (" \o exc.partName \o "), measure ("
                            \o exc.measureNumber \o "): " \o exc.message

C3_Witness ==
    /\ ret.fn = "__str__"
    /\ exc.cls = "MusicXMLImportException"
    /\ exc.partName = ""
    /\ exc.measureNumber = "12"
    /\ ret.val = "In part (), measure (12): bad value"

\* the position of a type among the values of a forward table
ForwardIndex(forward, t) == CHOOSE i \in DOMAIN forward : forward[i][2] = t

KeepsForwardOrder(forward, table, n) ==
    \A i, j \in 1..n :
        i < j => /\ \E k \in DOMAIN forward : forward[k][2] = table[i][1]
                 /\ \E k \in DOMAIN forward : forward[k][2] = table[j][1]
                 /\ ForwardIndex(forward, table[i][1]) < ForwardIndex(forward, table[j][1])

\* C8: after the module's statements ARTICULATION_MARKS_REV has no entry
\* for Articulation, ends with (Staccato, 'staccato') then (Accent,
\* 'accent'), and its other entries keep the order of ARTICULATION_MARKS;
\* TECHNICAL_MARKS_REV has no entry for TechnicalIndication, ends with
\* (Harmonic, 'harmonic'), and its other entries keep the order of
\* TECHNICAL_MARKS.
C8_OverrideResult ==
    Imported =>
        LET a == ARTICULATION_MARKS_REV
            t == TECHNICAL_MARKS_REV
        IN  /\ ~HasKey(a, "Articulation")
            /\ Len(a) >= 2
            /\ a[Len(a) - 1] = <<"Staccato", "staccato">>
            /\ a[Len(a)] = <<"Accent", "accent">>
            /\ KeepsForwardOrder(ARTICULATION_MARKS, a, Len(a) - 2)
            /\ ~HasKey(t, "TechnicalIndication")
            /\ Len(t) >= 1
            /\ t[Len(t)] = <<"Harmonic", "harmonic">>
            /\ KeepsForwardOrder(TECHNICAL_MARKS, t, Len(t) - 1)

C8_Witness ==
    /\ Imported
    /\ Len(ARTICULATION_MARKS_REV) = Len(ARTICULATION_MARKS) - 1
    /\ Len(TECHNICAL_MARKS_REV) = Len(TECHNICAL_MARKS)
    /\ ARTICULATION_MARKS_REV[1] = <<"StrongAccent", "strong-accent">>

ForwardTokens(forward) == {forward[i][1] : i \in DOMAIN forward}
ForwardTypes(forward) == {forward[i][2] : i \in DOMAIN forward}

ExactConsistent(forward, dropped, table) ==
    /\ \A i \in DOMAIN forward :
          forward[i][2] # dropped =>
              /\ HasKey(table, forward[i][2])
              /\ GetItem(table, forward[i][2]) = forward[i][1]
    /\ \A j \in DOMAIN table : table[j][2] \in ForwardTokens(forward)

\* C10: every forward entry other than the dropped base type has its type
\* mapped back to its token by the reverse table; every token of a reverse
\* table is a key of its forward table; and (Harmonic, 'harmonic') is the
\* one reverse entry whose type is not a value of its forward table.
C10_ExactConsistency ==
    Imported =>
        /\ ExactConsistent(ARTICULATION_MARKS, "Articulation", ARTICULATION_MARKS_REV)
        /\ ExactConsistent(TECHNICAL_MARKS, "TechnicalIndication", TECHNICAL_MARKS_REV)
        /\ Keys(ARTICULATION_MARKS_REV) \subseteq ForwardTypes(ARTICULATION_MARKS)
        /\ {TECHNICAL_MARKS_REV[j] : j \in {n \in DOMAIN TECHNICAL_MARKS_REV :
                TECHNICAL_MARKS_REV[n][1] \notin ForwardTypes(TECHNICAL_MARKS)}}
             = {<<"Harmonic", "harmonic">>}

C10_Witness ==
    /\ Imported
    /\ HasKey(ARTICULATION_MARKS_REV, "Staccato")
    /\ GetItem(ARTICULATION_MARKS_REV, "Staccato") = "staccato"
    /\ GetItem(TECHNICAL_MARKS_REV, "StringHarmonic") = "harmonic"
    /\ GetItem(TECHNICAL_MARKS_REV, "Harmonic") = "harmonic"

(***************************************************************************)
(* The scalar converters.  A Python value handed to them is a record of    *)
(* its type t and its payload: the characters s of a str, the truth b of   *)
(* a bool, the number n of an int, the numerator n over 2 of a float, the  *)
(* number n of items of a list.                                            *)
(***************************************************************************)
MaxLen == 3

PyStr(chars) == [t |-> "str", s |-> chars, b |-> FALSE, n |-> 0]
PyBool(b) == [t |-> "bool", s |-> <<>>, b |-> b, n |-> 0]
PyInt(n) == [t |-> "int", s |-> <<>>, b |-> FALSE, n |-> n]
PyFloat(halves) == [t |-> "float", s |-> <<>>, b |-> FALSE, n |-> halves]
PyNone == [t |-> "NoneType", s |-> <<>>, b |-> FALSE, n |-> 0]
PyList(len) == [t |-> "list", s |-> <<>>, b |-> FALSE, n |-> len]

AsciiLetters ==
    {"a", "b", "c", "d", "e", "f", "g", "h", "i", "j", "k", "l", "m",
     "n", "o", "p", "q", "r", "s", "t", "u", "v", "w", "x", "y", "z",
     "A", "B", "C", "D", "E", "F", "G", "H", "I", "J", "K", "L", "M",
     "N", "O", "P", "Q", "R", "S", "T", "U", "V", "W", "X", "Y", "Z"}
Digits == {"0", "1", "2", "3", "4", "5", "6", "7", "8", "9"}
\* alphanumeric characters outside ASCII
NonAsciiAlnum == {"é"}

\* the characters the argument strings are made of: one or two of each
\* class the pattern tells apart
Alphabet == {"a", "Z", "_", "4", "-", ".", "é", "\n", ":"}

Texts == UNION {[1..n -> Alphabet] : n \in 0..MaxLen}

PyValues ==
    {PyStr(s) : s \in Texts}
    \cup {PyStr(<<"y", "e", "s">>), PyStr(<<"n", "o">>),
          PyStr(<<"m", "a", "y", "b", "e">>),
          PyStr(<<"h", "e", "l", "_", "l", "o">>),
          PyStr(<<"4", "s", "a", "d">>)}
    \cup {PyBool(TRUE), PyBool(FALSE)}
    \cup {PyInt(n) : n \in {-1, 0, 1, 5, 12345}}
    \cup {PyFloat(h) : h \in {0, 1, 2}}
    \cup {PyNone}
    \cup {PyList(0), PyList(1)}

IsNumber(x) == x.t \in {"bool", "int", "float"}

\* twice the numeric value of a bool, an int or a float
Halves(x) ==
    CASE x.t = "bool" -> (IF x.b THEN 2 ELSE 0)
      [] x.t = "int" -> 2 * x.n
      [] x.t = "float" -> x.n

\* x == y: numbers compare by value across bool, int and float; values of
\* unrelated types are unequal.
PyEq(x, y) ==
    IF IsNumber(x) /\ IsNumber(y)
    THEN Halves(x) = Halves(y)
    ELSE x = y

\* x in (a, b, ...)
PyIn(x, tuple) == \E i \in DOMAIN tuple : PyEq(x, tuple[i])

\* bool(x), the truth test of an if statement
PyTruth(x) ==
    CASE x.t = "bool" -> x.b
      [] x.t \in {"int", "float"} -> x.n # 0
      [] x.t = "str" -> Len(x.s) > 0
      [] x.t = "list" -> x.n > 0
      [] x.t = "NoneType" -> FALSE

yesNoToBoolean(x) ==
    IF PyIn(x, <<PyStr(<<"y", "e", "s">>), PyBool(TRUE)>>)
    THEN TRUE
    ELSE FALSE

booleanToYesNoStrict(x) ==
    IF x = PyBool(TRUE) THEN "yes" ELSE "no"

booleanToYesNo(x) ==
    IF PyTruth(x) THEN "yes" ELSE "no"

\* re: [a-zA-Z_]
NameStart(c) == c \in AsciiLetters \cup {"_"}

\* re: [\w.-], where \w of a str pattern is any alphanumeric character or
\* the underscore
NameChar(c) == c \in AsciiLetters \cup Digits \cup NonAsciiAlnum \cup {"_", ".", "-"}

\* _NCNAME.match(chars) is not None, for ^[a-zA-Z_][\w.-]*$: the $ matches
\* at the end of the string and also just before a newline that ends it.
NCNAME_match(chars) ==
    /\ Len(chars) >= 1
    /\ NameStart(chars[1])
    /\ \E end \in {Len(chars) - 1, Len(chars)} :
          /\ end >= 1
          /\ end = Len(chars) \/ chars[Len(chars)] = "\n"
          /\ \A i \in 2..end : NameChar(chars[i])

isValidXSDID(text) ==
    IF text.t # "str"
    THEN FALSE
    ELSE IF ~PyTruth(text)
         THEN FALSE
         ELSE IF NCNAME_match(text.s) THEN TRUE ELSE FALSE

(***************************************************************************)
(* The converters applied to any argument.                                 *)
(***************************************************************************)
unusedByConv == <<pc, ARTICULATION_MARKS_REV, TECHNICAL_MARKS_REV, exc,
                  FORWARD, TABLE, bpc, last>>

InitConv ==
    /\ value \in PyValues
    /\ ret = NoCall
    /\ pc = "unused"
    /\ ARTICULATION_MARKS_REV = <<>>
    /\ TECHNICAL_MARKS_REV = <<>>
    /\ exc = NoException
    /\ FORWARD = <<>>
    /\ TABLE = <<>>
    /\ bpc = "unused"
    /\ last = NoOverride

CallYesNoToBoolean ==
    /\ ret' = [fn |-> "yesNoToBoolean", arg |-> value, val |-> yesNoToBoolean(value)]
    /\ UNCHANGED <<value, unusedByConv>>

CallBooleanToYesNo ==
    /\ ret' = [fn |-> "booleanToYesNo", arg |-> value, val |-> booleanToYesNo(value)]
    /\ UNCHANGED <<value, unusedByConv>>

CallIsValidXSDID ==
    /\ ret' = [fn |-> "isValidXSDID", arg |-> value, val |-> isValidXSDID(value)]
    /\ UNCHANGED <<value, unusedByConv>>

NextConv == CallYesNoToBoolean \/ CallBooleanToYesNo \/ CallIsValidXSDID

SpecConv == InitConv /\ [][NextConv]_vars

\* the grammar of an XSD ID as the documentation gives it
StatedNCName(x) ==
    /\ x.t = "str"
    /\ Len(x.s) >= 1
    /\ x.s[1] \in AsciiLetters \cup {"_"}
    /\ \A i \in 2..Len(x.s) : x.s[i] \in AsciiLetters \cup Digits \cup {"_", "-", "."}

\* C4: isValidXSDID(text) is True if and only if text is a string, is
\* non-empty, starts with an ASCII letter or underscore and goes on with
\* ASCII letters, digits, underscores, hyphens and periods only; it is
\* False for everything else.
C4_IsValidXSDID ==
    ret.fn = "isValidXSDID" => (ret.val = TRUE <=> StatedNCName(ret.arg))

\* C5: yesNoToBoolean(value) is True only for the string 'yes' and the
\* boolean True, and False for every other input.
C5_YesNoToBoolean ==
    ret.fn = "yesNoToBoolean" =>
        (ret.val = TRUE <=>
            \/ ret.arg.t = "str" /\ ret.arg.s = <<"y", "e", "s">>
            \/ ret.arg.t = "bool" /\ ret.arg.b = TRUE)

\* C6: booleanToYesNo(value) is 'yes' for True, non-zero numbers and
\* non-empty strings and collections, 'no' for False, 0, the empty string,
\* the empty collection and None, and never anything else.
C6_BooleanToYesNo ==
    ret.fn = "booleanToYesNo" =>
        LET x == ret.arg
            truthy == \/ x.t = "bool" /\ x.b = TRUE
                      \/ x.t \in {"int", "float"} /\ x.n # 0
                      \/ x.t = "str" /\ x.s # <<>>
                      \/ x.t = "list" /\ x.n # 0
            falsy == \/ x.t = "bool" /\ x.b = FALSE
                     \/ x.t \in {"int", "float"} /\ x.n = 0
                     \/ x.t = "str" /\ x.s = <<>>
                     \/ x.t = "list" /\ x.n = 0
                     \/ x.t = "NoneType"
        IN  /\ ret.val \in {"yes", "no"}
            /\ truthy => ret.val = "yes"
            /\ falsy => ret.val = "no"
            /\ truthy \/ falsy

C6_Witness ==
    /\ ret.fn = "booleanToYesNo"
    /\ ret.arg = PyInt(5)
    /\ ret.val = "yes"

(***************************************************************************)
(* Table building over any forward table and any override statements: the  *)
(* inversion of lines 51 and 86, then del and item assignment statements    *)
(* as in lines 52-56 and 88-89, then the table is there for the importers   *)
(* of the module.  A KeyError ends the build with nothing published.        *)
(***************************************************************************)
MaxEntries == 3
MaxOverrides == 2

\* tokens and types to draw forward tables from: some of ORNAMENT_MARKS,
\* where several tokens do map to one type
BuildTokens == {"turn", "delayed-turn", "inverted-turn", "delayed-inverted-turn"}
BuildTypes == {"Turn", "InvertedTurn", "Ornament"}

\* a dict literal: no token twice
ForwardTables ==
    {f \in UNION {[1..n -> BuildTokens \X BuildTypes] : n \in 0..MaxEntries} :
        \A i, j \in DOMAIN f : i # j => f[i][1] # f[j][1]}

unusedByBuild == <<pc, ARTICULATION_MARKS_REV, TECHNICAL_MARKS_REV, exc, ret, value>>

InitBuild ==
    /\ FORWARD \in ForwardTables
    /\ TABLE = <<>>
    /\ bpc = "invert"
    /\ last = NoOverride
    /\ pc = "unused"
    /\ ARTICULATION_MARKS_REV = <<>>
    /\ TECHNICAL_MARKS_REV = <<>>
    /\ exc = NoException
    /\ ret = NoCall
    /\ value = None

\* TABLE = OrderedDict([(v, k) for k, v in FORWARD.items()])
BuildInvert ==
    /\ bpc = "invert"
    /\ TABLE' = Invert(FORWARD)
    /\ bpc' = "override"
    /\ UNCHANGED <<FORWARD, last, unusedByBuild>>

\* del TABLE[type]
BuildDel ==
    /\ bpc = "override"
    /\ last.n < MaxOverrides
    /\ \E type \in BuildTypes :
          LET r == DelItem(TABLE, type)
          IN  /\ TABLE' = r.d
              /\ bpc' = IF r.raised THEN "KeyError" ELSE "override"
              /\ last' = [fn |-> "del", arg |-> type, val |-> None,
                          known |-> HasKey(TABLE, type), n |-> last.n + 1]
    /\ UNCHANGED <<FORWARD, unusedByBuild>>

\* TABLE[type] = token
BuildSet ==
    /\ bpc = "override"
    /\ last.n < MaxOverrides
    /\ \E type \in BuildTypes, token \in BuildTokens :
          /\ TABLE' = SetItem(TABLE, type, token)
          /\ last' = [fn |-> "set", arg |-> type, val |-> token,
                      known |-> HasKey(TABLE, type), n |-> last.n + 1]
    /\ UNCHANGED <<bpc, FORWARD, unusedByBuild>>

\* the module body has run to its end: importers see TABLE
BuildDone ==
    /\ bpc = "override"
    /\ bpc' = "done"
    /\ UNCHANGED <<FORWARD, TABLE, last, unusedByBuild>>

NextBuild == BuildInvert \/ BuildDel \/ BuildSet \/ BuildDone

SpecBuild == InitBuild /\ [][NextBuild]_vars

Inverted == bpc = "override" /\ last.n = 0

FirstOccurrence(f, t) == CHOOSE i \in DOMAIN f : f[i][2] = t /\ \A j \in 1..(i - 1) : f[j][2] # t
LastOccurrence(f, t) == CHOOSE i \in DOMAIN f : f[i][2] = t /\ \A j \in (i + 1)..Len(f) : f[j][2] # t

\* one entry per distinct type of the forward table, in the order of the
\* types' first occurrences
OnePerTypeAtFirstOccurrence ==
    /\ Keys(TABLE) = ForwardTypes(FORWARD)
    /\ Len(TABLE) = Cardinality(ForwardTypes(FORWARD))
    /\ \A i, j \in DOMAIN TABLE :
          i < j => FirstOccurrence(FORWARD, TABLE[i][1]) < FirstOccurrence(FORWARD, TABLE[j][1])

\* C7 as stated: the inversion holds one entry per distinct type, at the
\* position of the type's first occurrence, with the first token seen for
\* that type.
C7_FirstTokenKept ==
    Inverted =>
        /\ OnePerTypeAtFirstOccurrence
        /\ \A i \in DOMAIN TABLE :
              TABLE[i][2] = FORWARD[FirstOccurrence(FORWARD, TABLE[i][1])][1]

\* C7 amended: the inversion holds one entry per distinct type, at the
\* position of the type's first occurrence, with the last token seen for
\* that type.
C7_LastTokenKept ==
    Inverted =>
        /\ OnePerTypeAtFirstOccurrence
        /\ \A i \in DOMAIN TABLE :
              TABLE[i][2] = FORWARD[LastOccurrence(FORWARD, TABLE[i][1])][1]

C7_Witness ==
    /\ Inverted
    /\ FORWARD = << <<"turn", "Turn">>, <<"inverted-turn", "InvertedTurn">>,
                    <<"delayed-turn", "Turn">> >>
    /\ TABLE = << <<"Turn", "delayed-turn">>, <<"InvertedTurn", "inverted-turn">> >>

\* C9 as stated: an override, drop or item assignment, that names a type
\* which is not a value of the forward table ends the build with an error.
C9_UnknownTypeFatal ==
    (last.fn # None /\ last.arg \notin ForwardTypes(FORWARD)) => bpc = "KeyError"

\* C9 amended: a drop that names a type absent from the reverse table as it
\* stands ends the build with KeyError and nothing is published; an item
\* assignment that names an absent type raises nothing and appends (type,
\* token) as the last entry; nothing else ends the build with an error.
C9_UnknownTypeDropFatal ==
    /\ (last.fn = "del" /\ ~last.known) => bpc = "KeyError"
    /\ (last.fn = "set" /\ ~last.known) =>
          /\ bpc \in {"override", "done"}
          /\ Len(TABLE) >= 1
          /\ TABLE[Len(TABLE)] = <<last.arg, last.val>>
    /\ bpc = "KeyError" => (last.fn = "del" /\ ~last.known)

C9_Witness ==
    /\ bpc = "KeyError"
    /\ last.fn = "del"
    /\ last.arg = "Ornament"
    /\ FORWARD = << <<"turn", "Turn">> >>
    /\ TABLE = << <<"Turn", "turn">> >>

====
